---- MODULE Spec2Model ----
(***************************************************************************)
(* Model of the survey record harmonization and linkage pipeline of        *)
(* india-timeuse-survey: src/2019/parse.py (polars pipeline) and           *)
(* src/parse.py (pandas pipeline).                                         *)
(*                                                                         *)
(* Text values are sequences of one-character strings, so that str(),      *)
(* casts, concatenation and the "Unknown (...)" fallbacks are computed     *)
(* character by character.  Column names are plain strings: the code only  *)
(* compares them.                                                          *)
(*                                                                         *)
(* A table is a sequence of columns [name, dtype, vals]; vals is the       *)
(* sequence of the column's cells, one per row.                            *)
(***************************************************************************)
EXTENDS Integers, Sequences, FiniteSets, TLC

VARIABLES pc, input, df, prev, call

vars == <<pc, input, df, prev, call>>

\* ------------------------------------------------------------------ bounds

\* Rows of an input table.
MaxRows == 2

\* ------------------------------------------------------------------ text

DigitChar == <<"0", "1", "2", "3", "4", "5", "6", "7", "8", "9">>

IsDigit(c) == \E i \in DOMAIN DigitChar : DigitChar[i] = c

DigitValue(c) == (CHOOSE i \in DOMAIN DigitChar : DigitChar[i] = c) - 1

\* Decimal digits of a natural number, as Python's str(int) and polars' cast
\* of an integer to Utf8 write them.
RECURSIVE Digits(_)
Digits(n) == IF n < 10 THEN <<DigitChar[n + 1]>>
             ELSE Digits(n \div 10) \o <<DigitChar[(n % 10) + 1]>>

\* Value of a (possibly empty) sequence of digit characters, as int() reads it.
RECURSIVE DigitsValue(_)
DigitsValue(s) == IF s = <<>> THEN 0
                  ELSE 10 * DigitsValue(SubSeq(s, 1, Len(s) - 1)) + DigitValue(s[Len(s)])

\* t occurs in s as a contiguous substring.
Contains(s, t) ==
    \E i \in 1..(Len(s) - Len(t) + 1) : SubSeq(s, i, i + Len(t) - 1) = t

RECURSIVE ConcatAll(_)
ConcatAll(ss) == IF ss = <<>> THEN <<>> ELSE Head(ss) \o ConcatAll(Tail(ss))

S_Unknown == <<"U", "n", "k", "n", "o", "w", "n">>
S_UnknownOpen == S_Unknown \o <<" ", "(">>
S_Close == <<")">>
S_nan == <<"n", "a", "n">>
S_yes == <<"y", "e", "s">>
S_no == <<"n", "o">>

\* ------------------------------------------------------------------ cells

Null == [t |-> "null"]
NaN == [t |-> "nan"]
IntCell(n) == [t |-> "int", n |-> n]
\* The float n + f/10.
FloatCell(n, f) == [t |-> "float", n |-> n, f |-> f]
StrCell(s) == [t |-> "str", s |-> s]
\* A struct cell with one integer field.
StructCell(n) == [t |-> "struct", n |-> n]

\* Python's str(value) of a cell handed to a mapping callback.
PyStr(v) ==
    CASE v.t = "int" -> Digits(v.n)
      [] v.t = "float" -> Digits(v.n) \o <<".">> \o <<DigitChar[v.f + 1]>>
      [] v.t = "nan" -> S_nan
      [] v.t = "str" -> v.s
      [] v.t = "struct" -> <<"{">> \o Digits(v.n) \o <<"}">>

\* polars cast(pl.Utf8) of one cell: null stays null.
CastUtf8(v) == IF v = Null THEN Null ELSE StrCell(PyStr(v))

\* ------------------------------------------------------------------ tables

Column(name, dtype, vals) == [name |-> name, dtype |-> dtype, vals |-> vals]

Names(t) == [i \in DOMAIN t |-> t[i].name]

HasCol(t, name) == \E i \in DOMAIN t : t[i].name = name

ColIdx(t, name) == CHOOSE i \in DOMAIN t : t[i].name = name

Col(t, name) == t[ColIdx(t, name)]

Height(t) == IF t = <<>> THEN 0 ELSE Len(t[1].vals)

\* Mutant of with_columns: the replaced column moves to the end of the table.
with_columns_append(t, c) ==
    Append(SelectSeq(t, LAMBDA x : x.name # c.name), c)

\* polars df.with_columns(expr.alias(name)) and pandas df[name] = series: a
\* column of that name is replaced in place, a new name is appended.
with_columns(t, c) ==
    IF HasCol(t, c.name)
    THEN [i \in DOMAIN t |-> IF t[i].name = c.name THEN c ELSE t[i]]
    ELSE Append(t, c)

IsNamed(c, name) == c.name = name

drop(t, name) == SelectSeq(t, LAMBDA c : ~IsNamed(c, name))

select(t, names) == [i \in DOMAIN names |-> Col(t, names[i])]

rename(t, old, new) ==
    [i \in DOMAIN t |-> IF t[i].name = old THEN [t[i] EXCEPT !.name = new] ELSE t[i]]

\* ------------------------------------------------------ code mapping engine

\* The key None of a Python dict.  Every other key is a sequence of
\* one-character strings, so this one equals no text key.
NoneKey == <<"None">>

K_1 == <<"1">>
K_1_0 == <<"1", ".", "0">>

\* The code maps: any dict over the keys "1", "1.0" and None.
MapKeys == {K_1, K_1_0, NoneKey}

Descriptions == {S_yes, S_no, S_UnknownOpen \o <<"3">> \o S_Close}

CodeMaps == UNION {[ks -> Descriptions] : ks \in SUBSET MapKeys}

\* f"Unknown ({value})"
UnknownOf(value) == S_UnknownOpen \o PyStr(value) \o S_Close

\* Mutant of map_value: the fallback does not embed the raw value.
map_value_bare_unknown(value, mapping_dict) ==
    IF value = Null THEN Null
    ELSE IF PyStr(value) \in DOMAIN mapping_dict
         THEN StrCell(mapping_dict[PyStr(value)])
         ELSE StrCell(S_Unknown)

\* src/2019/parse.py: the callback of map_elements.
map_value(value, mapping_dict) ==
    IF value = Null THEN Null
    ELSE LET str_value == PyStr(value)
         IN IF str_value \in DOMAIN mapping_dict
            THEN StrCell(mapping_dict[str_value])
            ELSE StrCell(UnknownOf(value))

\* Python's float(s) for a text of digits and dots: it parses iff the text has
\* exactly one dot and at least one digit, all other characters being digits.
DotPositions(s) == {i \in DOMAIN s : s[i] = "."}

FloatParses(s) ==
    /\ Cardinality(DotPositions(s)) = 1
    /\ Len(s) >= 2
    /\ \A i \in DOMAIN s : s[i] = "." \/ IsDigit(s[i])

IntPart(s) == LET p == CHOOSE i \in DotPositions(s) : TRUE
              IN SubSeq(s, 1, p - 1)

FracPart(s) == LET p == CHOOSE i \in DotPositions(s) : TRUE
               IN SubSeq(s, p + 1, Len(s))

\* float(s).is_integer()
FloatIsInteger(s) == \A i \in DOMAIN FracPart(s) : FracPart(s)[i] = "0"

\* src/parse.py: the "1.0" -> "1" rewriting of clean_and_map.
clean(str_val) ==
    IF DotPositions(str_val) # {} /\ FloatParses(str_val) /\ FloatIsInteger(str_val)
    THEN Digits(DigitsValue(IntPart(str_val)))
    ELSE str_val

\* pd.isna(val)
isna(val) == val = Null \/ val = NaN

\* dict.get(key, default)
get(mapping_dict, key, default) ==
    IF key \in DOMAIN mapping_dict THEN mapping_dict[key] ELSE default

\* Mutant of clean_and_map: the lookup uses str(val) without the rewriting.
clean_and_map_raw_lookup(val, mapping_dict) ==
    IF val = Null \/ val = NaN THEN StrCell(S_Unknown)
    ELSE StrCell(IF PyStr(val) \in DOMAIN mapping_dict
                 THEN mapping_dict[PyStr(val)]
                 ELSE S_UnknownOpen \o PyStr(val) \o S_Close)

\* src/parse.py: the callback of Series.apply.
clean_and_map(val, mapping_dict) ==
    IF isna(val) THEN StrCell(S_Unknown)
    ELSE StrCell(get(mapping_dict, clean(PyStr(val)), UnknownOf(val)))

\* The library steps of the 2019 function that can raise on this column.
FailPoints2019(t, column_name) ==
    IF ~HasCol(t, column_name) THEN {"none"}
    ELSE {"none", "unique", "map_elements"}
         \cup (IF Col(t, column_name).dtype = "Struct" THEN {"struct_cast"} ELSE {})

\* The column with every cell cast to Utf8.
CastColumn(c) == Column(c.name, "Utf8", [i \in DOMAIN c.vals |-> CastUtf8(c.vals[i])])

\* The column with its cells replaced by the callback's results; map_elements
\* with return_dtype=pl.Utf8 and Series.apply both give a text column.
MapColumn(c, vals) == Column(c.name, "Utf8", vals)

\* src/2019/parse.py map_codes_to_descriptions.  fail names the library call
\* that raises, "none" when none does.  The except clause returns the table
\* bound to df at that point.
map_codes_to_descriptions_2019(t, column_name, mapping_dict, fail) ==
    IF ~HasCol(t, column_name) THEN t
    ELSE IF Col(t, column_name).dtype = "Struct" /\ fail = "struct_cast" THEN t
    ELSE LET df1 == IF Col(t, column_name).dtype = "Struct"
                    THEN with_columns(t, CastColumn(Col(t, column_name)))
                    ELSE t
             c == Col(df1, column_name)
         IN IF fail \in {"unique", "map_elements"} THEN df1
            ELSE with_columns(df1,
                     MapColumn(c, [i \in DOMAIN c.vals |-> map_value(c.vals[i], mapping_dict)]))

\* The steps of the pandas function that can raise on this column.
FailPointsPandas(t, column_name) ==
    IF ~HasCol(t, column_name) THEN {"none"} ELSE {"none", "apply"}

\* src/parse.py map_codes_to_descriptions.
map_codes_to_descriptions_pandas(t, column_name, mapping_dict, fail) ==
    IF ~HasCol(t, column_name) THEN t
    ELSE IF fail = "apply" THEN t
    ELSE LET c == Col(t, column_name)
         IN with_columns(t,
                MapColumn(c, [i \in DOMAIN c.vals |-> clean_and_map(c.vals[i], mapping_dict)]))

\* ----------------------------------------------- inputs of the code mapping

IntCells == {Null, IntCell(1), IntCell(3)}
FloatCells == {Null, NaN, FloatCell(1, 0), FloatCell(2, 5)}
Utf8Cells == {Null, StrCell(K_1), StrCell(K_1_0)}
StructCells == {Null, StructCell(1)}

CellsOf(dtype) ==
    CASE dtype = "Int64" -> IntCells
      [] dtype = "Float64" -> FloatCells
      [] dtype = "Utf8" -> Utf8Cells
      [] dtype = "Struct" -> StructCells

Dtypes == {"Int64", "Float64", "Utf8", "Struct"}

\* A second column, which no mapping step names.
AgeColumn(n) == Column("Age", "Int64", [i \in 1..n |-> IntCell(30 + i)])

\* The table with the coded column g before or after the other column, or
\* without it.
MapInput(g, place) ==
    CASE place = "first" -> <<g, AgeColumn(Len(g.vals))>>
      [] place = "last" -> <<AgeColumn(Len(g.vals)), g>>
      [] place = "absent" -> <<AgeColumn(Len(g.vals))>>

NoCall == [fn |-> "none"]

InitMap ==
    /\ pc = "start"
    /\ \E n \in 0..MaxRows, dtype \in Dtypes, place \in {"first", "last", "absent"} :
          \E vals \in [1..n -> CellsOf(dtype)] :
             input = MapInput(Column("Gender", dtype, vals), place)
    /\ df = input
    /\ prev = input
    /\ call = NoCall

\* One call df = map_codes_to_descriptions(df, "Gender", M) of the 2019 pipeline.
MapCodes2019 ==
    /\ pc = "start"
    /\ \E mapping_dict \in CodeMaps :
         \E fail \in FailPoints2019(df, "Gender") :
            /\ call' = [fn |-> "map_codes_2019", column_name |-> "Gender",
                        mapping_dict |-> mapping_dict, fail |-> fail]
            /\ df' = map_codes_to_descriptions_2019(df, "Gender", mapping_dict, fail)
    /\ prev' = df
    /\ pc' = "mapped"
    /\ UNCHANGED input

\* One call df = map_codes_to_descriptions(df, "Gender", M) of the pandas
\* pipeline; a table read from CSV has no struct column.
MapCodesPandas ==
    /\ pc = "start"
    /\ \A i \in DOMAIN df : df[i].dtype # "Struct"
    /\ \E mapping_dict \in CodeMaps :
         \E fail \in FailPointsPandas(df, "Gender") :
            /\ call' = [fn |-> "map_codes_pandas", column_name |-> "Gender",
                        mapping_dict |-> mapping_dict, fail |-> fail]
            /\ df' = map_codes_to_descriptions_pandas(df, "Gender", mapping_dict, fail)
    /\ prev' = df
    /\ pc' = "mapped"
    /\ UNCHANGED input

NextMap == MapCodes2019 \/ MapCodesPandas

SpecMap == InitMap /\ [][NextMap]_vars

\* ------------------------------------------------------ identifier synthesis

\* src/2019/parse.py GROUP_BY_COLUMNS
GROUP_BY_COLUMNS ==
    <<"FSU Serial No.", "Sector", "State", "District", "Stratum", "Sub-Stratum",
      "Sub-Round", "FOD Sub-Region", "Sample hhld. No.">>

\* src/2019/parse.py COLUMN_ALIASES, in the dict's order.
COLUMN_ALIASES ==
    << [standard_name |-> "Schedule", aliases |-> <<", Schedule">>],
       [standard_name |-> "Sl.No.",
        aliases |-> <<"Person serial no.", "Serial no.of member">>] >>

\* The (standard name, alias) pairs in the order the two nested loops visit them.
AliasPairs ==
    ConcatAll([g \in DOMAIN COLUMN_ALIASES |->
        [a \in DOMAIN COLUMN_ALIASES[g].aliases |->
            [standard_name |-> COLUMN_ALIASES[g].standard_name,
             alias |-> COLUMN_ALIASES[g].aliases[a]]]])

\* Mutant of rename_aliases: an alias is renamed whenever it is present.
RECURSIVE rename_aliases_unguarded(_, _)
rename_aliases_unguarded(t, pairs) ==
    IF pairs = <<>> THEN t
    ELSE LET p == Head(pairs)
         IN rename_aliases_unguarded(
                IF HasCol(t, p.alias) THEN rename(t, p.alias, p.standard_name) ELSE t,
                Tail(pairs))

\* The alias loop: an alias is renamed only while its standard name is absent.
RECURSIVE rename_aliases(_, _)
rename_aliases(t, pairs) ==
    IF pairs = <<>> THEN t
    ELSE LET p == Head(pairs)
         IN rename_aliases(
                IF HasCol(t, p.alias) /\ ~HasCol(t, p.standard_name)
                THEN rename(t, p.alias, p.standard_name)
                ELSE t,
                Tail(pairs))

\* [df.columns[1]] + df.columns[4:]
columns_to_keep(t) == <<t[2].name>> \o [i \in 1..(Len(t) - 4) |-> t[i + 4].name]

InList(list, x) == \E i \in DOMAIN list : list[i] = x

\* Mutant of available_group_cols: the key columns in the table's own order.
available_group_cols_table_order(t) ==
    SelectSeq(Names(t), LAMBDA c : InList(GROUP_BY_COLUMNS, c))

\* [col for col in GROUP_BY_COLUMNS if col in df.columns]
available_group_cols(t) == SelectSeq(GROUP_BY_COLUMNS, LAMBDA c : HasCol(t, c))

\* The loop casting every available grouping column to Utf8.
RECURSIVE cast_columns(_, _)
cast_columns(t, cols) ==
    IF cols = <<>> THEN t
    ELSE cast_columns(with_columns(t, CastColumn(Col(t, Head(cols)))), Tail(cols))

\* pl.concat_str of the named columns, for row i: the texts joined with no
\* separator, null when any of them is null.  A cell that is not text is
\* cast to text first.
concat_str(t, cols, i) ==
    IF \E k \in DOMAIN cols : Col(t, cols[k]).vals[i] = Null THEN Null
    ELSE StrCell(ConcatAll([k \in DOMAIN cols |-> PyStr(Col(t, cols[k]).vals[i])]))

concat_str_column(t, cols, name) ==
    Column(name, "Utf8", [i \in 1..Height(t) |-> concat_str(t, cols, i)])

NoTable == [ok |-> FALSE, table |-> <<>>]

\* src/2019/parse.py process_parquet_file.  fail names the step that raises:
\* "read_parquet", "transform" (inside the inner try) or "none".  A table of
\* fewer than two columns raises IndexError at df.columns[1].
process_parquet_file(file, fail) ==
    IF fail = "read_parquet" \/ Len(file) < 2 THEN NoTable
    ELSE LET df0 == rename_aliases(select(file, columns_to_keep(file)), AliasPairs)
             cols == available_group_cols(df0)
             df1 == cast_columns(df0, cols)
         IN IF cols = <<>> THEN NoTable
            ELSE IF fail = "transform" THEN NoTable
            ELSE [ok |-> TRUE,
                  table |-> with_columns(df1, concat_str_column(df1, cols, "household_id"))]

\* src/2019/parse.py individual_demographics_columns
individual_demographics_columns ==
    <<"household_id", "Sl.No.", "State", "District", "Gender", "Age",
      "marital status", "highest level of education",
      "usual principal activity: status (code)",
      "industry of work: 2-digit of NIC 2008">>

\* Lines 171-172: the demographic columns that exist, in the list's order.
select_available(t, columns) ==
    select(t, SelectSeq(columns, LAMBDA c : HasCol(t, c)))

\* Mutant of person_id_first: the column order is left as it is.
person_id_not_moved(t) == t

\* Lines 184-186: person_id becomes the first column.
person_id_first(t) ==
    select(t, <<"person_id">> \o SelectSeq(Names(t), LAMBDA c : c # "person_id"))

\* Lines 174-188: person_id from household_id and Sl.No., when Sl.No. exists.
add_person_id(t) ==
    IF HasCol(t, "Sl.No.")
    THEN person_id_first(
             drop(with_columns(t, concat_str_column(t, <<"household_id", "Sl.No.">>,
                                                   "person_id")),
                  "Sl.No."))
    ELSE t

\* --------------------------------------------- inputs of identifier synthesis

S_07 == <<"0", "7">>

\* The cells a column of a module file may hold.
CellDomain(name) ==
    CASE name = "FSU Serial No." -> {StrCell(S_07)}
      [] name = "Sector" -> {FloatCell(2, 0)}
      [] name = "State" -> {IntCell(1), IntCell(12), Null}
      [] name = "District" -> {IntCell(3), IntCell(23), IntCell(32)}
      [] name \in {"Sl.No.", "Person serial no."} -> {IntCell(3), IntCell(23)}
      [] OTHER -> {IntCell(5)}

DtypeOf(name) ==
    CASE name = "FSU Serial No." -> "Utf8"
      [] name = "Sector" -> "Float64"
      [] OTHER -> "Int64"

\* The four leading columns of a module file: the second one is kept.
HeadLayouts ==
    { <<"Centre", "FSU Serial No.", "Round", ", Schedule">>,
      <<"Stratum", "Centre", "Round", "Schedule">> }

BodyLayouts ==
    { <<"State", "District", "Sl.No.", "Age">>,
      <<"District", "Sector", "Person serial no.", "State">>,
      <<"State", "Age">>,
      <<"Age">> }

\* Files that hold a standard name next to its alias, or two aliases of one
\* standard name.
AliasLayouts ==
    { <<"Centre", "FSU Serial No.", "Round", "Schedule",
        "Sl.No.", "Person serial no.", "State">>,
      <<"Centre", "State", "Round", "Schedule",
        "Serial no.of member", "Person serial no.", ", Schedule">>,
      <<"Centre", "Sector", "Round", "Visit",
        "Schedule", ", Schedule", "Serial no.of member">> }

FileLayouts ==
    {h \o b : h \in HeadLayouts, b \in BodyLayouts} \cup AliasLayouts \cup {<<"State">>}

LayoutNames(layout) == {layout[i] : i \in DOMAIN layout}

\* The columns whose cells vary from file to file; every other column holds
\* the one cell of its domain in every row.
VaryingColumns == {"State", "District", "Sl.No.", "Person serial no."}

\* The cell vectors of n rows that the column may hold in a file of this
\* layout: one fixed vector when the layout lacks the column.
VectorsFor(layout, names, n) ==
    IF LayoutNames(layout) \cap names = {} THEN {[i \in 1..n |-> Null]}
    ELSE [1..n -> CellDomain(CHOOSE c \in names : TRUE)]

\* The table of the columns of layout, in that order.
TableOf(layout, n, state, district, serial) ==
    [i \in DOMAIN layout |->
        Column(layout[i], DtypeOf(layout[i]),
               CASE layout[i] = "State" -> state
                 [] layout[i] = "District" -> district
                 [] layout[i] \in {"Sl.No.", "Person serial no."} -> serial
                 [] OTHER -> [k \in 1..n |-> CHOOSE c \in CellDomain(layout[i]) : TRUE])]

InitKey ==
    /\ pc = "file"
    /\ \E layout \in FileLayouts, n \in 0..MaxRows :
          \E state \in VectorsFor(layout, {"State"}, n),
             district \in VectorsFor(layout, {"District"}, n),
             serial \in VectorsFor(layout, {"Sl.No.", "Person serial no."}, n) :
                input = TableOf(layout, n, state, district, serial)
    /\ df = input
    /\ prev = input
    /\ call = NoCall

\* dfs["tus106_l02"] = process_parquet_file(file), when it returns a table.
ProcessParquetFile ==
    /\ pc = "file"
    /\ \E fail \in {"none", "read_parquet", "transform"} :
         LET r == process_parquet_file(df, fail)
         IN /\ call' = [fn |-> "process_parquet_file", fail |-> fail, ok |-> r.ok]
            /\ df' = r.table
            /\ pc' = IF r.ok THEN "processed" ELSE "excluded"
    /\ prev' = df
    /\ UNCHANGED input

\* Lines 159-172: the demographic columns of the person module are selected.
SelectDemographics ==
    /\ pc = "processed"
    /\ call' = [fn |-> "select_demographics"]
    /\ df' = select_available(df, individual_demographics_columns)
    /\ prev' = df
    /\ pc' = "selected"
    /\ UNCHANGED input

\* Line 159 when the person module was excluded: dfs["tus106_l02"] raises
\* KeyError, which nothing catches.
DemographicsMissing ==
    /\ pc = "excluded"
    /\ call' = [fn |-> "select_demographics"]
    /\ pc' = "crashed"
    /\ UNCHANGED <<input, df, prev>>

\* Lines 173-188: person key synthesis on the person-level table.
PersonKeySynthesis ==
    /\ pc = "selected"
    /\ call' = [fn |-> "add_person_id", created |-> HasCol(df, "Sl.No.")]
    /\ df' = add_person_id(df)
    /\ prev' = df
    /\ pc' = "keyed"
    /\ UNCHANGED input

NextKey ==
    ProcessParquetFile \/ SelectDemographics \/ DemographicsMissing \/ PersonKeySynthesis

SpecKey == InitKey /\ [][NextKey]_vars

\* ---------------------------------------------------------- column projection

\* Columns of a joined table.
MaxCols == 4

\* src/2019/parse.py desired_column_order
desired_column_order ==
    <<"person_id", "state", "district", "gender", "age", "marital_status",
      "education", "religion", "social_group", "household_size",
      "monthly_expenditure", "principal_activity", "industry",
      "activity_serial_no", "time_from", "time_to", "multiple_activity",
      "simultaneous_activity", "is_major_activity", "activity_code",
      "activity_location", "payment_status", "enterprise_type">>

\* src/parse.py column_order
column_order ==
    <<"person_id", "state", "district", "gender", "age", "marital_status",
      "education", "religion", "social_group", "household_size",
      "monthly_expenditure", "principal_activity", "industry",
      "activity_serial_no", "time_from", "time_to", "multiple_activity",
      "simultaneous_activity", "is_major_activity", "activity_code",
      "activity_location", "payment_status", "enterprise_type">>

\* Mutant of reorder_columns: only the listed columns are selected.
reorder_columns_listed_only(t, order) ==
    select(t, SelectSeq(order, LAMBDA c : HasCol(t, c)))

\* The listed columns that exist, in the list's order, then the columns that
\* the list does not name, in the table's order.
reorder_columns(t, order) ==
    LET existing_columns == SelectSeq(order, LAMBDA c : HasCol(t, c))
        remaining_columns == SelectSeq(Names(t), LAMBDA c : ~InList(order, c))
    IN select(t, existing_columns \o remaining_columns)

\* Column names of a joined table: some that the order lists name, some that
\* they do not.
ColumnPool ==
    {"age", "person_id", "state", "day_of_week", "response_code", "household_id"}

\* The one-row column of that name; its cell tells the columns apart.
PoolColumn(name) ==
    Column(name, "Utf8", <<StrCell(<<name>>)>>)

InitProject ==
    /\ pc = "joined"
    /\ \E k \in 0..MaxCols :
          \E names \in [1..k -> ColumnPool] :
             /\ \A i, j \in 1..k : names[i] = names[j] => i = j
             /\ input = [i \in 1..k |-> PoolColumn(names[i])]
    /\ df = input
    /\ prev = input
    /\ call = NoCall

\* src/2019/parse.py lines 436-446.
Project2019 ==
    /\ pc = "joined"
    /\ call' = [fn |-> "project_2019", order |-> desired_column_order]
    /\ df' = reorder_columns(df, desired_column_order)
    /\ prev' = df
    /\ pc' = "projected"
    /\ UNCHANGED input

\* src/parse.py lines 300-307.
ProjectPandas ==
    /\ pc = "joined"
    /\ call' = [fn |-> "project_pandas", order |-> column_order]
    /\ df' = reorder_columns(df, column_order)
    /\ prev' = df
    /\ pc' = "projected"
    /\ UNCHANGED input

NextProject == Project2019 \/ ProjectPandas

SpecProject == InitProject /\ [][NextProject]_vars

\* ------------------------------------------------ file groups (lines 94-155)

\* Files of one file group.
MaxParts == 2

\* Rows of one file of a group.
MaxPartRows == 1

\* pl.concat([a, b], how="vertical") checks the two tables column by column:
\* "shape" when the widths or the names at some position differ, "schema" when
\* the names agree and a dtype differs, "none" when the tables stack.
concat_error(a, b) ==
    IF Names(a) # Names(b) THEN "shape"
    ELSE IF \E i \in DOMAIN a : a[i].dtype # b[i].dtype THEN "schema"
    ELSE "none"

\* The exception the first concat raises.  A dtype mismatch raises
\* SchemaError; for a width or name mismatch the class depends on the polars
\* build: ShapeError or SchemaError.
ConcatRaises(a, b) ==
    CASE concat_error(a, b) = "none" -> {"none"}
      [] concat_error(a, b) = "schema" -> {"SchemaError"}
      [] concat_error(a, b) = "shape" -> {"ShapeError", "SchemaError"}

\* The rows of a followed by the rows of b.
concat_vertical(a, b) ==
    [i \in DOMAIN a |-> [a[i] EXCEPT !.vals = a[i].vals \o b[i].vals]]

\* df.with_columns(pl.lit(None).alias(col))
lit_none(t, col) ==
    with_columns(t, Column(col, "Null", [i \in 1..Height(t) |-> Null]))

\* Lines 124-143 for one column of all_columns.
harmonize_column(h, col) ==
    IF HasCol(h.combined_df, col) /\ HasCol(h.df, col)
    THEN IF Col(h.combined_df, col).dtype # Col(h.df, col).dtype
         THEN [combined_df |-> with_columns(h.combined_df, CastColumn(Col(h.combined_df, col))),
               df |-> with_columns(h.df, CastColumn(Col(h.df, col)))]
         ELSE h
    ELSE IF HasCol(h.combined_df, col)
         THEN [h EXCEPT !.df = lit_none(h.df, col)]
         ELSE [h EXCEPT !.combined_df = lit_none(h.combined_df, col)]

\* Lines 121-143: the loop over all_columns, in the order the set yields them.
RECURSIVE harmonize(_, _)
harmonize(h, cols) ==
    IF cols = <<>> THEN h
    ELSE harmonize(harmonize_column(h, Head(cols)), Tail(cols))

\* set(combined_df.columns).union(set(df.columns))
all_columns(a, b) == {a[i].name : i \in DOMAIN a} \cup {b[i].name : i \in DOMAIN b}

\* The orders in which a set can be iterated.
Orders(S) ==
    {f \in [1..Cardinality(S) -> S] : \A i, j \in DOMAIN f : f[i] = f[j] => i = j}

\* Mutant of accumulate: a file that gave no table resets the accumulated table.
accumulate_reset_on_none(combined_df, r, exc, order) ==
    IF ~r.ok THEN [combined_df |-> NoTable, outcome |-> "skipped"]
    ELSE IF ~combined_df.ok THEN [combined_df |-> r, outcome |-> "first"]
    ELSE IF exc = "none"
         THEN [combined_df |-> [ok |-> TRUE,
                                table |-> concat_vertical(combined_df.table, r.table)],
               outcome |-> "concatenated"]
    ELSE IF exc # "SchemaError"
         THEN [combined_df |-> combined_df, outcome |-> "aborted"]
    ELSE LET h == harmonize([combined_df |-> combined_df.table, df |-> r.table], order)
         IN IF concat_error(h.combined_df, h.df) = "none"
            THEN [combined_df |-> [ok |-> TRUE,
                                   table |-> concat_vertical(h.combined_df, h.df)],
                  outcome |-> "harmonized"]
            ELSE [combined_df |-> [ok |-> TRUE, table |-> h.combined_df],
                  outcome |-> "dropped"]

\* Lines 107-151: one iteration of the loop over the files of a group.  r is
\* the result of process_parquet_file, exc the exception of the first concat,
\* order the iteration order of all_columns.
accumulate(combined_df, r, exc, order) ==
    IF ~r.ok THEN [combined_df |-> combined_df, outcome |-> "skipped"]
    ELSE IF ~combined_df.ok THEN [combined_df |-> r, outcome |-> "first"]
    ELSE IF exc = "none"
         THEN [combined_df |-> [ok |-> TRUE,
                                table |-> concat_vertical(combined_df.table, r.table)],
               outcome |-> "concatenated"]
    ELSE IF exc # "SchemaError"
         THEN [combined_df |-> combined_df, outcome |-> "aborted"]
    ELSE LET h == harmonize([combined_df |-> combined_df.table, df |-> r.table], order)
         IN IF concat_error(h.combined_df, h.df) = "none"
            THEN [combined_df |-> [ok |-> TRUE,
                                   table |-> concat_vertical(h.combined_df, h.df)],
                  outcome |-> "harmonized"]
            ELSE [combined_df |-> [ok |-> TRUE, table |-> h.combined_df],
                  outcome |-> "dropped"]

\* The schemas of the files of a group: the plain one, one with a further
\* column, one whose Age column is text, and one with no grouping column.
PartSchemas ==
    { << <<"Centre", "Int64">>, <<"State", "Int64">>, <<"Round", "Int64">>,
         <<"Visit", "Int64">>, <<"Age", "Int64">> >>,
      << <<"Centre", "Int64">>, <<"State", "Int64">>, <<"Round", "Int64">>,
         <<"Visit", "Int64">>, <<"Gender", "Int64">>, <<"Age", "Int64">> >>,
      << <<"Centre", "Int64">>, <<"State", "Int64">>, <<"Round", "Int64">>,
         <<"Visit", "Int64">>, <<"Age", "Utf8">> >>,
      << <<"Centre", "Int64">>, <<"Round", "Int64">>, <<"Visit", "Int64">>,
         <<"Schedule", "Int64">>, <<"Age", "Int64">> >> }

\* The file of that schema whose rows hold the given State cells.
PartFile(schema, state) ==
    [i \in DOMAIN schema |->
        Column(schema[i][1], schema[i][2],
               [k \in DOMAIN state |->
                   CASE schema[i][1] = "State" -> state[k]
                     [] schema[i][2] = "Utf8" -> StrCell(<<"3", "0">>)
                     [] schema[i][1] = "Age" -> IntCell(30)
                     [] OTHER -> IntCell(5)])]

\* The files of a group: file i holds the State code i in each of its rows.
InitGroup ==
    /\ pc = "group"
    /\ \E k \in 1..MaxParts :
          \E schema \in [1..k -> PartSchemas], n \in [1..k -> 0..MaxPartRows] :
             input = [i \in 1..k |-> PartFile(schema[i], [r \in 1..n[i] |-> IntCell(i)])]
    /\ df = [file_paths |-> input, combined_df |-> NoTable, dfs |-> NoTable]
    /\ prev = df
    /\ call = NoCall

\* Lines 98-102: the group of one file.
SingleFile ==
    /\ pc = "group"
    /\ Len(input) = 1
    /\ df.file_paths # <<>>
    /\ \E fail \in {"none", "read_parquet", "transform"} :
         LET r == process_parquet_file(Head(df.file_paths), fail)
         IN /\ call' = [fn |-> "single", fail |-> fail, ok |-> r.ok,
                        outcome |-> IF r.ok THEN "stored" ELSE "skipped",
                        exc |-> "none", part |-> r.table]
            /\ df' = [df EXCEPT !.file_paths = <<>>,
                                !.dfs = IF r.ok THEN r ELSE @]
    /\ prev' = df
    /\ pc' = "done"
    /\ UNCHANGED input

\* Lines 106-151: one file of a group of several files.
ConcatPart ==
    /\ pc = "group"
    /\ Len(input) > 1
    /\ df.file_paths # <<>>
    /\ \E fail \in {"none", "read_parquet", "transform"} :
         LET r == process_parquet_file(Head(df.file_paths), fail)
             both == r.ok /\ df.combined_df.ok
         IN \E exc \in (IF both THEN ConcatRaises(df.combined_df.table, r.table)
                         ELSE {"none"}) :
               \E order \in (IF exc = "SchemaError"
                              THEN Orders(all_columns(df.combined_df.table, r.table))
                              ELSE {<<>>}) :
                  LET a == accumulate(df.combined_df, r, exc, order)
                  IN /\ call' = [fn |-> "part", fail |-> fail, ok |-> r.ok,
                                 outcome |-> a.outcome, exc |-> exc, part |-> r.table]
                     /\ df' = [df EXCEPT !.file_paths = Tail(@),
                                         !.combined_df = a.combined_df]
                     /\ pc' = IF a.outcome = "aborted" THEN "crashed" ELSE "group"
    /\ prev' = df
    /\ UNCHANGED input

\* Lines 153-155: the accumulated table becomes the module's table.
StoreGroup ==
    /\ pc = "group"
    /\ Len(input) > 1
    /\ df.file_paths = <<>>
    /\ call' = [fn |-> "store", fail |-> "none", ok |-> df.combined_df.ok,
                outcome |-> IF df.combined_df.ok THEN "stored" ELSE "skipped",
                exc |-> "none", part |-> <<>>]
    /\ df' = [df EXCEPT !.dfs = IF df.combined_df.ok THEN df.combined_df ELSE @]
    /\ prev' = df
    /\ pc' = "done"
    /\ UNCHANGED input

NextGroup == SingleFile \/ ConcatPart \/ StoreGroup

SpecGroup == InitGroup /\ [][NextGroup]_vars

\* --------------------------------------------- the join pipeline (lines 157-459)

\* Rows of a module table.
MaxModuleRows == 2

\* src/2019/parse.py household_demographics_columns
household_demographics_columns ==
    <<"household_id", "Household size", "religion", "Social group ",
      "usual monthly consumer expenditure E: [A+B+C+(D/12)]">>

\* src/2019/parse.py time_use_columns
time_use_columns ==
    <<"household_id", "Sl.No.", "srl. No of activity", "time from", "time to",
      "whether performed multiple activity in the time slot",
      "whether simultaneous activity", "whether a major activity",
      "3-didit activity code", "where the activity was performed",
      "unpaid/paid status of activity", "enterprise type">>

\* src/2019/parse.py column_mapping of the individual profile (lines 279-292)
column_mapping ==
    << <<"State", "state">>, <<"District", "district">>, <<"Gender", "gender">>,
       <<"Age", "age">>, <<"marital status", "marital_status">>,
       <<"highest level of education", "education">>,
       <<"usual principal activity: status (code)", "principal_activity">>,
       <<"industry of work: 2-digit of NIC 2008", "industry">>,
       <<"Household size", "household_size">>, <<"religion", "religion">>,
       <<"Social group ", "social_group">>,
       <<"usual monthly consumer expenditure E: [A+B+C+(D/12)]", "monthly_expenditure">> >>

\* src/2019/parse.py column_mapping of the time use data (lines 327-338)
column_mapping_time_use ==
    << <<"srl. No of activity", "activity_serial_no">>, <<"time from", "time_from">>,
       <<"time to", "time_to">>,
       <<"whether performed multiple activity in the time slot", "multiple_activity">>,
       <<"whether simultaneous activity", "simultaneous_activity">>,
       <<"whether a major activity", "is_major_activity">>,
       <<"3-didit activity code", "activity_code">>,
       <<"where the activity was performed", "activity_location">>,
       <<"unpaid/paid status of activity", "payment_status">>,
       <<"enterprise type", "enterprise_type">> >>

\* df.rename({old: new for old, new in mapping.items() if old in df.columns})
rename_columns(t, mapping) ==
    [i \in DOMAIN t |->
        IF \E m \in DOMAIN mapping : mapping[m][1] = t[i].name
        THEN [t[i] EXCEPT !.name =
                 mapping[CHOOSE m \in DOMAIN mapping : mapping[m][1] = t[i].name][2]]
        ELSE t[i]]

\* The rows of the right table whose key equals that of row i of the left
\* table, in the right table's order; a null key matches nothing.
join_matches(left, right, on, i) ==
    SelectSeq([j \in 1..Height(right) |-> j],
              LAMBDA j : /\ Col(left, on).vals[i] # Null
                         /\ Col(right, on).vals[j] = Col(left, on).vals[i])

\* Mutant of join_rows: an inner join, which drops the unmatched left rows.
RECURSIVE join_rows_inner(_, _, _, _)
join_rows_inner(left, right, on, i) ==
    IF i > Height(left) THEN <<>>
    ELSE LET m == join_matches(left, right, on, i)
         IN [k \in DOMAIN m |-> <<i, m[k]>>] \o join_rows_inner(left, right, on, i + 1)

\* The (left row, right row) pairs of a left join from left row i onwards, in
\* the left table's order; right row 0 stands for no match.
RECURSIVE join_rows(_, _, _, _)
join_rows(left, right, on, i) ==
    IF i > Height(left) THEN <<>>
    ELSE LET m == join_matches(left, right, on, i)
         IN (IF m = <<>> THEN << <<i, 0>> >> ELSE [k \in DOMAIN m |-> <<i, m[k]>>])
            \o join_rows(left, right, on, i + 1)

\* left.join(right, on=on, how="left"): the left columns, then the right
\* columns other than the key, a name the left table has taking the suffix
\* "_right".
join_left(left, right, on) ==
    LET rows == join_rows(left, right, on, 1)
        others == drop(right, on)
    IN [i \in DOMAIN left |->
           [left[i] EXCEPT !.vals = [k \in DOMAIN rows |-> left[i].vals[rows[k][1]]]]]
       \o
       [i \in DOMAIN others |->
           Column(IF HasCol(left, others[i].name)
                  THEN others[i].name \o "_right" ELSE others[i].name,
                  others[i].dtype,
                  [k \in DOMAIN rows |->
                      IF rows[k][2] = 0 THEN Null ELSE others[i].vals[rows[k][2]]])]

\* The household_id values of the module tables.
HouseholdIds == {StrCell(<<"1">>), StrCell(<<"2">>)}

\* A column whose cell in row i is the integer base + i.
CountingColumn(name, base, n) == Column(name, "Int64", [i \in 1..n |-> IntCell(base + i)])

\* dfs["tus106_l02"]: the persons, with the given household_id per row and
\* the row number as Sl.No.; process_parquet_file appended household_id last.
PersonModule(hids, serial) ==
    << CountingColumn("Centre", 50, Len(hids)) >>
    \o (IF serial THEN << CountingColumn("Sl.No.", 0, Len(hids)) >> ELSE <<>>)
    \o << CountingColumn("Age", 30, Len(hids)),
          Column("household_id", "Utf8", hids) >>

\* dfs["tus106_l03"]: the households.
HouseholdModule(hids) ==
    << CountingColumn("Centre", 50, Len(hids)),
       CountingColumn("Household size", 0, Len(hids)),
       Column("household_id", "Utf8", hids) >>

\* dfs["tus106_l05"]: the diary rows, each with the household_id of its
\* person; every diary row is of the member with Sl.No. 1.
TimeUseModule(hids, serial) ==
    (IF serial THEN << Column("Sl.No.", "Int64", [i \in DOMAIN hids |-> IntCell(1)]) >>
     ELSE <<>>)
    \o << CountingColumn("time from", 0, Len(hids)),
          Column("household_id", "Utf8", hids) >>

\* A module of dfs: absent when no file of its group gave a table.
Module(kind, table) == IF kind = "absent" THEN NoTable ELSE [ok |-> TRUE, table |-> table]

ModuleKinds == {"table", "no_serial", "absent"}

\* The row counts a module of that kind is drawn with: an absent module has
\* no table to vary.
RowCounts(kind) == IF kind = "absent" THEN {0} ELSE 0..MaxModuleRows

InitRun ==
    /\ pc = "loaded"
    /\ \E kp \in ModuleKinds, kh \in {"table", "absent"}, kt \in ModuleKinds :
          \E np \in RowCounts(kp), nh \in RowCounts(kh), nt \in RowCounts(kt) :
             \E ph \in [1..np -> HouseholdIds \cup {Null}],
                hh \in [1..nh -> HouseholdIds],
                th \in [1..nt -> HouseholdIds] :
                   input = [tus106_l02 |-> Module(kp, PersonModule(ph, kp = "table")),
                            tus106_l03 |-> Module(kh, HouseholdModule(hh)),
                            tus106_l05 |-> Module(kt, TimeUseModule(th, kt = "table"))]
    /\ df = [individual_profile |-> <<>>, output |-> NoTable]
    /\ prev = df
    /\ call = NoCall

\* Lines 157-240: the individual profile from dfs["tus106_l02"].  The module
\* tables here hold none of the coded columns, so every mapping step is
\* skipped by its `if ... in individual_profile.columns`.
Demographics ==
    /\ pc = "loaded"
    /\ IF ~input.tus106_l02.ok
       THEN /\ call' = [fn |-> "demographics", error |-> "KeyError",
                        left |-> <<>>, right |-> <<>>]
            /\ pc' = "crashed"
            /\ df' = df
       ELSE /\ call' = [fn |-> "demographics", error |-> "none",
                        left |-> <<>>, right |-> <<>>]
            /\ df' = [df EXCEPT !.individual_profile =
                         add_person_id(select_available(input.tus106_l02.table,
                                                        individual_demographics_columns))]
            /\ pc' = "profiled"
    /\ prev' = df
    /\ UNCHANGED input

\* Lines 242-297: the household columns are joined to the individual profile.
HouseholdJoin ==
    /\ pc = "profiled"
    /\ IF ~input.tus106_l03.ok
       THEN /\ call' = [fn |-> "household_join", error |-> "KeyError",
                        left |-> <<>>, right |-> <<>>]
            /\ pc' = "crashed"
            /\ df' = df
       ELSE LET household_info == select_available(input.tus106_l03.table,
                                                   household_demographics_columns)
            IN /\ call' = [fn |-> "household_join", error |-> "none",
                           left |-> df.individual_profile, right |-> household_info]
               /\ df' = [df EXCEPT !.individual_profile =
                            rename_columns(join_left(@, household_info, "household_id"),
                                           column_mapping)]
               /\ pc' = "with_household"
    /\ prev' = df
    /\ UNCHANGED input

\* Lines 299-459: the time use data, its join with the individual profile,
\* the projection and the output file.
TimeUseJoin ==
    /\ pc = "with_household"
    /\ IF ~input.tus106_l05.ok
       THEN /\ call' = [fn |-> "time_use_join", error |-> "KeyError",
                        left |-> <<>>, right |-> <<>>]
            /\ pc' = "crashed"
            /\ df' = df
       ELSE LET selected == select_available(input.tus106_l05.table, time_use_columns)
            IN IF ~HasCol(selected, "Sl.No.")
               THEN /\ call' = [fn |-> "time_use_join", error |-> "none",
                                left |-> <<>>, right |-> <<>>]
                    /\ pc' = "returned"
                    /\ df' = df
               ELSE LET time_use_data ==
                            rename_columns(
                                drop(drop(with_columns(selected,
                                              concat_str_column(selected,
                                                  <<"household_id", "Sl.No.">>, "person_id")),
                                          "Sl.No."),
                                     "household_id"),
                                column_mapping_time_use)
                        individual_profile == drop(df.individual_profile, "household_id")
                    IN IF ~HasCol(individual_profile, "person_id")
                       THEN /\ call' = [fn |-> "time_use_join",
                                        error |-> "ColumnNotFoundError",
                                        left |-> time_use_data,
                                        right |-> individual_profile]
                            /\ pc' = "crashed"
                            /\ df' = [df EXCEPT !.individual_profile = individual_profile]
                       ELSE /\ call' = [fn |-> "time_use_join", error |-> "none",
                                        left |-> time_use_data,
                                        right |-> individual_profile]
                            /\ pc' = "returned"
                            /\ df' = [individual_profile |-> individual_profile,
                                      output |-> [ok |-> TRUE,
                                          table |-> reorder_columns(
                                              join_left(time_use_data, individual_profile,
                                                        "person_id"),
                                              desired_column_order)]]
    /\ prev' = df
    /\ UNCHANGED input

NextRun == Demographics \/ HouseholdJoin \/ TimeUseJoin

SpecRun == InitRun /\ [][NextRun]_vars

\* ------------------------------------ district mapping, 2019 (lines 514-564)

S_UnknownDistrictOpen ==
    S_Unknown \o <<" ", "D", "i", "s", "t", "r", "i", "c", "t", " ", "(">>

K_3 == <<"3">>
K_12 == <<"1", "2">>
K_23 == <<"2", "3">>

\* The name DISTRICT_MAPPING gives to a district of a state.
DistrictName(state, district) == <<"D">> \o state \o <<"/">> \o district

\* DISTRICT_MAPPING: any nested dict over the state codes "1" and "12" and the
\* district codes "3" and "23".
DistrictMappings ==
    {[st \in states |-> [d \in districts[st] |-> DistrictName(st, d)]] :
        states \in SUBSET {K_1, K_12},
        districts \in [{K_1, K_12} -> SUBSET {K_3, K_23}]}

\* Mutant of map_district: the district code is looked up under any state.
map_district_any_state(state_val, district_val, mapping) ==
    IF state_val = Null \/ district_val = Null THEN Null
    ELSE IF \E st \in DOMAIN mapping : PyStr(district_val) \in DOMAIN mapping[st]
         THEN StrCell(mapping[CHOOSE st \in DOMAIN mapping :
                                     PyStr(district_val) \in DOMAIN mapping[st]]
                             [PyStr(district_val)])
         ELSE StrCell(S_UnknownDistrictOpen \o PyStr(district_val) \o S_Close)

\* Lines 532-546: the callback of map_elements.
map_district(state_val, district_val, mapping) ==
    IF state_val = Null \/ district_val = Null THEN Null
    ELSE LET state_str == PyStr(state_val)
             district_str == PyStr(district_val)
         IN IF state_str \in DOMAIN mapping /\ district_str \in DOMAIN mapping[state_str]
            THEN StrCell(mapping[state_str][district_str])
            ELSE StrCell(S_UnknownDistrictOpen \o PyStr(district_val) \o S_Close)

\* src/2019/parse.py map_district_codes.  fail names the library call that
\* raises, "none" when none does; df is assigned only when the call returns.
map_district_codes_2019(t, mapping, fail) ==
    IF ~HasCol(t, "State") \/ ~HasCol(t, "District") THEN t
    ELSE IF fail = "map_elements" THEN t
    ELSE LET district_name ==
                 Column("district_name", "Utf8",
                        [i \in 1..Height(t) |->
                            map_district(Col(t, "State").vals[i],
                                         Col(t, "District").vals[i], mapping)])
         IN rename(drop(with_columns(t, district_name), "District"),
                   "district_name", "District")

\* The individual profile when the district mapping is called: State and
\* District are text, cast by process_parquet_file.
DistrictLayouts ==
    { <<"State", "District", "Age">>, <<"District", "Age", "State">>,
      <<"State", "Age">>, <<"District", "Age">> }

StateCodes == {StrCell(K_1), StrCell(K_12), Null}
DistrictCodes == {StrCell(K_3), StrCell(K_23), Null}

DistrictInput(layout, state, district) ==
    [i \in DOMAIN layout |->
        CASE layout[i] = "State" -> Column("State", "Utf8", state)
          [] layout[i] = "District" -> Column("District", "Utf8", district)
          [] OTHER -> CountingColumn(layout[i], 30, Len(state))]

InitDistrict ==
    /\ pc = "profile"
    /\ \E layout \in DistrictLayouts, n \in 0..MaxRows :
          \E state \in (IF InList(layout, "State") THEN [1..n -> StateCodes]
                        ELSE {[i \in 1..n |-> Null]}),
             district \in (IF InList(layout, "District") THEN [1..n -> DistrictCodes]
                           ELSE {[i \in 1..n |-> Null]}) :
                input = DistrictInput(layout, state, district)
    /\ df = input
    /\ prev = input
    /\ call = NoCall

\* One call df = map_district_codes(df) of the 2019 pipeline.
MapDistrict2019 ==
    /\ pc = "profile"
    /\ \E mapping \in DistrictMappings :
         \E fail \in (IF HasCol(df, "State") /\ HasCol(df, "District")
                       THEN {"none", "map_elements"} ELSE {"none"}) :
            /\ call' = [fn |-> "map_district_2019", mapping |-> mapping, fail |-> fail]
            /\ df' = map_district_codes_2019(df, mapping, fail)
    /\ prev' = df
    /\ pc' = "district_mapped"
    /\ UNCHANGED input

NextDistrict == MapDistrict2019

SpecDistrict == InitDistrict /\ [][NextDistrict]_vars

\* ------------------------- geographic lookup, pandas (src/parse.py 105-125)

\* Rows of raw/districts.csv.
MaxRefRows == 3

\* f"{row['Sub-region Code']}_{row['District Code']}_{row['State Code']}"
mapping_key(sub_region, district, state) ==
    Digits(sub_region) \o <<"_">> \o Digits(district) \o <<"_">> \o Digits(state)

\* dict[key] = value
setitem(dict, key, value) ==
    [k \in DOMAIN dict \cup {key} |-> IF k = key THEN value ELSE dict[k]]

\* Mutant of add_reference_row: a key that is present keeps its first value.
add_reference_row_first_wins(acc, row) ==
    LET key == mapping_key(row.sub_region, row.district, row.state)
    IN [mapping_dict |->
            IF key \in DOMAIN acc.mapping_dict THEN acc.mapping_dict
            ELSE setitem(acc.mapping_dict, key,
                         [state_name |-> row.state_name,
                          district_name |-> row.district_name]),
        duplicate_keys |->
            IF key \in DOMAIN acc.mapping_dict
            THEN acc.duplicate_keys \cup {key} ELSE acc.duplicate_keys]

\* Lines 111-114: the body of the loop over the reference rows.
add_reference_row(acc, row) ==
    LET key == mapping_key(row.sub_region, row.district, row.state)
    IN [mapping_dict |->
            setitem(acc.mapping_dict, key,
                    [state_name |-> row.state_name,
                     district_name |-> row.district_name]),
        duplicate_keys |->
            IF key \in DOMAIN acc.mapping_dict
            THEN acc.duplicate_keys \cup {key} ELSE acc.duplicate_keys]

\* Lines 106-114: the loop over districts_df.iterrows(), in row order.
RECURSIVE build_lookup(_, _)
build_lookup(acc, rows) ==
    IF rows = <<>> THEN acc
    ELSE build_lookup(add_reference_row(acc, Head(rows)), Tail(rows))

\* Lines 117-123: the lines of logs/duplicate_district_keys.log after its two
\* header lines; the file is written only when there is a duplicate.
duplicate_log(acc) ==
    IF acc.duplicate_keys = {} THEN [written |-> FALSE, lines |-> {}]
    ELSE [written |-> TRUE,
          lines |-> {<<key, acc.mapping_dict[key].state_name,
                       acc.mapping_dict[key].district_name>> : key \in acc.duplicate_keys}]

\* The rows of districts_df after the codes are converted to integers.
ReferenceRows ==
    [sub_region : {1, 11}, district : {1, 11}, state : {1},
     state_name : {"Kerala"}, district_name : {"Idukki", "Wayanad"}]

EmptyLookup == [mapping_dict |-> <<>>, duplicate_keys |-> {}]

InitLookup ==
    /\ pc = "reference"
    /\ \E n \in 0..MaxRefRows : input \in [1..n -> ReferenceRows]
    /\ df = [mapping_dict |-> <<>>, duplicate_keys |-> {},
             log |-> [written |-> FALSE, lines |-> {}]]
    /\ prev = df
    /\ call = NoCall

\* Lines 105-125 of the pandas map_district_codes.
BuildLookup ==
    /\ pc = "reference"
    /\ LET acc == build_lookup(EmptyLookup, input)
       IN df' = [mapping_dict |-> acc.mapping_dict,
                 duplicate_keys |-> acc.duplicate_keys,
                 log |-> duplicate_log(acc)]
    /\ call' = [fn |-> "build_lookup"]
    /\ prev' = df
    /\ pc' = "lookup"
    /\ UNCHANGED input

NextLookup == BuildLookup

SpecLookup == InitLookup /\ [][NextLookup]_vars

\* --------------------- district mapping, pandas (src/parse.py 56-180)

\* Lines 94-103: the state code of an NSS-Region code, by the length of its
\* text, converted back to an integer.
extract_state_code(nss_region) ==
    LET nss_str == Digits(nss_region)
    IN DigitsValue(CASE Len(nss_str) = 3 -> SubSeq(nss_str, 1, 2)
                     [] Len(nss_str) = 2 -> SubSeq(nss_str, 1, 1)
                     [] OTHER -> nss_str)

\* Line 128: the mapping_key of an input row.
row_key(row) ==
    mapping_key(row.sub_region, row.district, extract_state_code(row.nss_region))

\* key.split('_')
RECURSIVE split(_, _)
split(s, sep) ==
    IF \A i \in DOMAIN s : s[i] # sep THEN <<s>>
    ELSE LET p == CHOOSE i \in DOMAIN s :
                      s[i] = sep /\ \A j \in 1..(i - 1) : s[j] # sep
         IN <<SubSeq(s, 1, p - 1)>> \o split(SubSeq(s, p + 1, Len(s)), sep)

\* Lines 134-149: the state and district of each row, "Unknown State" and
\* "Unknown District" unless the row's key is a key of the lookup.
apply_lookup(rows, mapping_dict) ==
    [i \in DOMAIN rows |->
        IF row_key(rows[i]) \in DOMAIN mapping_dict
        THEN [state |-> mapping_dict[row_key(rows[i])].state_name,
              district |-> mapping_dict[row_key(rows[i])].district_name]
        ELSE [state |-> "Unknown State", district |-> "Unknown District"]]

\* Lines 139-156: the keys of the input rows that the loop over the lookup did
\* not remove, each split into its three codes.
unmapped_keys(rows, mapping_dict) ==
    {split(key, "_") :
        key \in {row_key(rows[i]) : i \in DOMAIN rows} \ DOMAIN mapping_dict}

\* Lines 159-160: the rows counted as failed are those whose state column
\* holds "Unknown State".
failed_mappings(mapped) ==
    Cardinality({i \in DOMAIN mapped : mapped[i].state = "Unknown State"})

NoGeo == [returned |-> "input", rows |-> <<>>, failure_log |-> {},
          mapped_count |-> 0, failed_mappings |-> 0]

\* src/parse.py map_district_codes on a table that has the FOD Sub-Region and
\* District columns.  fail names the step that raises before line 135, "none"
\* when none does: the except clause returns the table without the new columns.
map_district_codes_pandas(districts_df, rows, fail) ==
    IF fail # "none" THEN NoGeo
    ELSE LET lookup == build_lookup(EmptyLookup, districts_df)
             mapped == apply_lookup(rows, lookup.mapping_dict)
         IN [returned |-> "mapped",
             rows |-> mapped,
             failure_log |-> unmapped_keys(rows, lookup.mapping_dict),
             mapped_count |-> Len(rows) - failed_mappings(mapped),
             failed_mappings |-> failed_mappings(mapped)]

\* The rows of raw/districts.csv for the district mapping.
GeoReferenceRows ==
    [sub_region : {1}, district : {1, 11}, state : {1},
     state_name : {"Kerala", "Unknown State"}, district_name : {"Idukki"}]

\* The rows of the merged table: FOD Sub-Region, District and NSS-Region.
GeoRows == [sub_region : {1}, district : {1, 11}, nss_region : {11, 21, 111}]

InitGeo ==
    /\ pc = "merged"
    /\ \E n \in 0..MaxRefRows, m \in 0..MaxRows :
          \E districts_df \in [1..n -> GeoReferenceRows], rows \in [1..m -> GeoRows] :
             input = [districts_df |-> districts_df, rows |-> rows]
    /\ df = NoGeo
    /\ prev = df
    /\ call = NoCall

\* merged_df = map_district_codes(merged_df) of the pandas pipeline.
MapDistrictPandas ==
    /\ pc = "merged"
    /\ \E fail \in {"none", "read_csv", "astype"} :
          /\ call' = [fn |-> "map_district_pandas", fail |-> fail]
          /\ df' = map_district_codes_pandas(input.districts_df, input.rows, fail)
    /\ prev' = df
    /\ pc' = "geo_mapped"
    /\ UNCHANGED input

NextGeo == MapDistrictPandas

SpecGeo == InitGeo /\ [][NextGeo]_vars

\* ------------------------------- file grouping (src/2019/parse.py 80-155)

\* Files handed to create_individual_profiles.
MaxFiles == 3

\* str.lower()
lower(s) ==
    LET upper == <<"A", "B", "C", "D", "E", "F", "G", "H", "I", "J", "K", "L", "M",
                   "N", "O", "P", "Q", "R", "S", "T", "U", "V", "W", "X", "Y", "Z">>
        small == <<"a", "b", "c", "d", "e", "f", "g", "h", "i", "j", "k", "l", "m",
                   "n", "o", "p", "q", "r", "s", "t", "u", "v", "w", "x", "y", "z">>
    IN [i \in DOMAIN s |->
           IF \E k \in DOMAIN upper : upper[k] = s[i]
           THEN small[CHOOSE k \in DOMAIN upper : upper[k] = s[i]]
           ELSE s[i]]

\* str.isdigit(): not empty, and every character is a digit.
isdigit(s) == s # <<>> /\ \A i \in DOMAIN s : IsDigit(s[i])

\* os.path.basename(file_path): the text after the last "/".
basename(file_path) ==
    LET parts == split(file_path, "/") IN parts[Len(parts)]

\* sep.join(parts)
RECURSIVE join(_, _)
join(sep, parts) ==
    IF parts = <<>> THEN <<>>
    ELSE IF Len(parts) = 1 THEN Head(parts)
    ELSE Head(parts) \o <<sep>> \o join(sep, Tail(parts))

\* Lines 83-88: the group key of a file: the text of its name before the
\* first ".", lower-cased, without its last "_" segment when that segment is
\* a number.
base_name(file_path) ==
    LET file_name == split(basename(file_path), ".")[1]
        lowered == lower(file_name)
        parts == split(lowered, "_")
    IN IF Len(parts) > 1 /\ isdigit(parts[Len(parts)])
       THEN join("_", SubSeq(parts, 1, Len(parts) - 1))
       ELSE lowered

\* Lines 90-92.  file_groups is a dict: its entries stay in insertion order.
add_file(file_groups, file_path) ==
    LET key == base_name(file_path)
    IN IF \E g \in DOMAIN file_groups : file_groups[g].base_name = key
       THEN [g \in DOMAIN file_groups |->
                IF file_groups[g].base_name = key
                THEN [file_groups[g] EXCEPT !.file_paths = Append(@, file_path)]
                ELSE file_groups[g]]
       ELSE Append(file_groups, [base_name |-> key, file_paths |-> <<file_path>>])

\* Lines 82-92: the loop over parquet_files.
RECURSIVE group_files(_, _)
group_files(file_groups, parquet_files) ==
    IF parquet_files = <<>> THEN file_groups
    ELSE group_files(add_file(file_groups, Head(parquet_files)), Tail(parquet_files))

\* Files that glob("raw/*.parquet") can list: numbered parts in either case,
\* a module of one file, a name of two numbers, a name that ends in "_", and
\* a name with a further "." (convert.py names a file after the stem of its
\* CSV file, which may hold one).
FilePaths ==
    LET raw == <<"r", "a", "w", "/">>
        parquet == <<".", "p", "a", "r", "q", "u", "e", "t">>
        tus106_l05 == <<"t", "u", "s", "1", "0", "6", "_", "l", "0", "5">>
        TUS106_L05 == <<"T", "U", "S", "1", "0", "6", "_", "L", "0", "5">>
        TUS106_L02 == <<"T", "U", "S", "1", "0", "6", "_", "L", "0", "2">>
    IN { raw \o TUS106_L05 \o <<"_", "1">> \o parquet,
         raw \o tus106_l05 \o <<"_", "2">> \o parquet,
         raw \o tus106_l05 \o parquet,
         raw \o TUS106_L02 \o parquet,
         raw \o tus106_l05 \o <<"_", "1", "_", "2">> \o parquet,
         raw \o tus106_l05 \o <<"_">> \o parquet,
         raw \o tus106_l05 \o <<".", "v", "2", "_", "1">> \o parquet }

\* The schema of every file of the run.
FileSchema ==
    << <<"Centre", "Int64">>, <<"State", "Int64">>, <<"Round", "Int64">>,
       <<"Visit", "Int64">>, <<"Age", "Int64">> >>

\* The table read from a file of the run.
read_parquet(file_path) ==
    LET i == CHOOSE k \in DOMAIN input : input[k] = file_path
    IN PartFile(FileSchema, <<IntCell(i)>>)

\* The files of a run, each listed once: file i holds one row of State code i.
InitFiles ==
    /\ pc = "files"
    /\ \E k \in 1..MaxFiles :
          \E paths \in [1..k -> FilePaths] :
             /\ \A i, j \in 1..k : paths[i] = paths[j] => i = j
             /\ input = paths
    /\ df = [file_groups |-> <<>>, group |-> 0, file_paths |-> <<>>,
             combined_df |-> NoTable, dfs |-> <<>>]
    /\ prev = df
    /\ call = NoCall

\* Lines 80-92.
GroupFiles ==
    /\ pc = "files"
    /\ df' = [df EXCEPT !.file_groups = group_files(<<>>, input), !.group = 1]
    /\ call' = [fn |-> "group_files"]
    /\ prev' = df
    /\ pc' = "grouped"
    /\ UNCHANGED input

\* Line 95: the next group of the loop over file_groups.items().
NextFileGroup ==
    /\ pc = "grouped"
    /\ df.group <= Len(df.file_groups)
    /\ Len(df.file_groups[df.group].file_paths) > 1
    /\ df' = [df EXCEPT !.file_paths = df.file_groups[df.group].file_paths,
                        !.combined_df = NoTable]
    /\ call' = [fn |-> "next_group"]
    /\ prev' = df
    /\ pc' = "combining"
    /\ UNCHANGED input

\* Lines 98-102: a group of one file.
SingleFileGroup ==
    /\ pc = "grouped"
    /\ df.group <= Len(df.file_groups)
    /\ Len(df.file_groups[df.group].file_paths) = 1
    /\ \E fail \in {"none", "read_parquet", "transform"} :
         LET g == df.file_groups[df.group]
             r == process_parquet_file(read_parquet(g.file_paths[1]), fail)
         IN /\ df' = [df EXCEPT !.group = @ + 1,
                                !.dfs = IF r.ok THEN setitem(@, g.base_name, r.table)
                                        ELSE @]
            /\ call' = [fn |-> "single", outcome |-> IF r.ok THEN "stored" ELSE "skipped"]
    /\ prev' = df
    /\ pc' = "grouped"
    /\ UNCHANGED input

\* Lines 106-151: one file of a group of several files.
CombineFile ==
    /\ pc = "combining"
    /\ df.file_paths # <<>>
    /\ \E fail \in {"none", "read_parquet", "transform"} :
         LET r == process_parquet_file(read_parquet(Head(df.file_paths)), fail)
             both == r.ok /\ df.combined_df.ok
         IN \E exc \in (IF both THEN ConcatRaises(df.combined_df.table, r.table)
                         ELSE {"none"}) :
               \E order \in (IF exc = "SchemaError"
                              THEN Orders(all_columns(df.combined_df.table, r.table))
                              ELSE {<<>>}) :
                  LET a == accumulate(df.combined_df, r, exc, order)
                  IN /\ df' = [df EXCEPT !.file_paths = Tail(@),
                                         !.combined_df = a.combined_df]
                     /\ call' = [fn |-> "part", outcome |-> a.outcome]
                     /\ pc' = IF a.outcome = "aborted" THEN "crashed" ELSE "combining"
    /\ prev' = df
    /\ UNCHANGED input

\* Lines 153-155: the accumulated table becomes the module's table.
StoreCombined ==
    /\ pc = "combining"
    /\ df.file_paths = <<>>
    /\ LET g == df.file_groups[df.group]
       IN df' = [df EXCEPT !.group = @ + 1,
                           !.dfs = IF df.combined_df.ok
                                   THEN setitem(@, g.base_name, df.combined_df.table)
                                   ELSE @]
    /\ call' = [fn |-> "store",
                outcome |-> IF df.combined_df.ok THEN "stored" ELSE "skipped"]
    /\ prev' = df
    /\ pc' = "grouped"
    /\ UNCHANGED input

NextFiles ==
    GroupFiles \/ NextFileGroup \/ SingleFileGroup \/ CombineFile \/ StoreCombined

SpecFiles == InitFiles /\ [][NextFiles]_vars

\* ------------------------------------------------- claims: code mapping (C1-C6)

Mapped == pc = "mapped"

\* The call reached the mapping of the named column and nothing raised.
MappedThrough == Mapped /\ call.fail = "none" /\ HasCol(prev, call.column_name)

\* Cell i of the named column before and after the call.
CellIn(i) == Col(prev, call.column_name).vals[i]
CellOut(i) == Col(df, call.column_name).vals[i]
CodedRows == DOMAIN Col(prev, call.column_name).vals

\* Null as each pipeline tests it: pd.isna in pandas, "is None" in polars.
IsNullCell(v) == IF call.fn = "map_codes_pandas" THEN isna(v) ELSE v = Null

\* The text each pipeline looks up in the map.
LookupKey(v) == IF call.fn = "map_codes_pandas" THEN clean(PyStr(v)) ELSE PyStr(v)

IsPrefix(p, s) == Len(p) <= Len(s) /\ SubSeq(s, 1, Len(p)) = p

\* C1 as stated: a non-null cell whose string form str(v) is a key of M is
\* replaced by exactly M[str(v)].
C1_Original ==
    MappedThrough =>
        \A i \in CodedRows :
            (~IsNullCell(CellIn(i)) /\ PyStr(CellIn(i)) \in DOMAIN call.mapping_dict)
            => CellOut(i) = StrCell(call.mapping_dict[PyStr(CellIn(i))])

\* C1 amended: a non-null cell whose looked-up text (str(v), with an integral
\* decimal text rewritten to its integer text in the pandas pipeline) is a key
\* of M is replaced by exactly M[that text]; such a cell never gets a fallback.
C1_MappedCodeResolves ==
    MappedThrough =>
        \A i \in CodedRows :
            (~IsNullCell(CellIn(i)) /\ LookupKey(CellIn(i)) \in DOMAIN call.mapping_dict)
            => CellOut(i) = StrCell(call.mapping_dict[LookupKey(CellIn(i))])

\* The pandas pipeline mapped the float 1.0 through the key "1" of a map that
\* also has the key "1.0" with another description.
C1_Witness ==
    /\ MappedThrough
    /\ call.fn = "map_codes_pandas"
    /\ {K_1, K_1_0} \subseteq DOMAIN call.mapping_dict
    /\ call.mapping_dict[K_1] # call.mapping_dict[K_1_0]
    /\ \E i \in CodedRows :
          /\ CellIn(i) = FloatCell(1, 0)
          /\ CellOut(i) = StrCell(call.mapping_dict[K_1])

\* "Unknown (" + str(v) + ")"
FallbackText(v) == S_Unknown \o <<" ", "(">> \o PyStr(v) \o <<")">>

Range(f) == {f[k] : k \in DOMAIN f}

C3_NullFallback ==
    MappedThrough =>
        \A i \in CodedRows :
            IsNullCell(CellIn(i))
            => /\ CellOut(i) # Null
               /\ CellOut(i) = IF NoneKey \in DOMAIN call.mapping_dict
                               THEN StrCell(call.mapping_dict[NoneKey])
                               ELSE StrCell(S_Unknown)

\* The integer n that a cell writes in integral-decimal form: n, "n", n.0 or
\* "n.0"; -1 for any other cell.
IntegralOf(v) ==
    CASE v.t = "int" -> v.n
      [] v.t = "float" /\ v.f = 0 -> v.n
      [] v.t = "str" /\ v.s # <<>> /\ (\A k \in DOMAIN v.s : IsDigit(v.s[k])) /\ v.s = Digits(DigitsValue(v.s)) -> DigitsValue(v.s)
      [] v.t = "str" /\ Len(v.s) >= 3 /\ SubSeq(v.s, Len(v.s) - 1, Len(v.s)) = <<".", "0">>
            /\ (\A k \in 1..(Len(v.s) - 2) : IsDigit(v.s[k]))
            /\ SubSeq(v.s, 1, Len(v.s) - 2) = Digits(DigitsValue(SubSeq(v.s, 1, Len(v.s) - 2)))
         -> DigitsValue(SubSeq(v.s, 1, Len(v.s) - 2))
      [] OTHER -> -1

\* C4: two cells that write the same integer in integral-decimal form (n, "n",
\* n.0) are mapped to the same output, in both pipelines.
C4_DecimalInsensitive ==
    MappedThrough =>
        \A i, j \in CodedRows :
            (IntegralOf(CellIn(i)) # -1 /\ IntegralOf(CellIn(i)) = IntegralOf(CellIn(j)))
            => CellOut(i) = CellOut(j)

\* C5: the call is column-local.  The result has the same columns in the same
\* order and the same number of rows, every column other than the named one is
\* unchanged, and a table without the named column is returned unchanged.
C5_ColumnLocal ==
    Mapped =>
        /\ Names(df) = Names(prev)
        /\ \A i \in DOMAIN df : Len(df[i].vals) = Len(prev[i].vals)
        /\ \A i \in DOMAIN df : df[i].name # call.column_name => df[i] = prev[i]
        /\ ~HasCol(prev, call.column_name) => df = prev

\* A two-row table whose first column was mapped and changed.
C5_Witness ==
    /\ MappedThrough
    /\ Len(df) = 2
    /\ df[1].name = call.column_name
    /\ Len(df[1].vals) = 2
    /\ df[1] # prev[1]
    /\ df[2] = prev[2]

\* C6: when an internal step fails, the table returned equals the table given.
C6_FailureReturnsInput ==
    (Mapped /\ call.fail # "none") => df = prev

\* --------------------------------------- claims: identifier synthesis (C7-C10)

\* The positions of the file's columns that the subsetting keeps.
KeptPositions == {2} \cup {p \in DOMAIN input : p >= 5}

KeptInFile(name) == \E p \in KeptPositions : input[p].name = name

\* The configured key columns present in the file, in the configured order.
PresentKeyColumns == SelectSeq(GROUP_BY_COLUMNS, KeptInFile)

\* The cell of row i of the file's column of that name.
FileCell(name, i) == input[CHOOSE p \in KeptPositions : input[p].name = name].vals[i]

\* The key cells of row i, in the configured order.
KeyTuple(i) == [k \in DOMAIN PresentKeyColumns |-> FileCell(PresentKeyColumns[k], i)]

HasNull(tuple) == \E k \in DOMAIN tuple : tuple[k] = Null

Rows(t) == 1..Height(t)

\* C7: household_id of each row is the concatenation, with no separator, of
\* the string casts of exactly the configured key columns that are present, in
\* the configured order (polars gives null when a key cell is null).
C7_HouseholdIdConcat ==
    pc = "processed" =>
        /\ HasCol(df, "household_id")
        /\ \A i \in Rows(input) :
              Col(df, "household_id").vals[i] =
                  IF HasNull(KeyTuple(i)) THEN Null
                  ELSE StrCell(ConcatAll([k \in DOMAIN KeyTuple(i) |-> PyStr(KeyTuple(i)[k])]))

\* A file holding District, Sector and State in that order, and no other key
\* column but FSU Serial No.: row 1 gets "07" + "2.0" + "12" + "23".
C7_Witness ==
    /\ pc = "processed"
    /\ Names(input) = <<"Centre", "FSU Serial No.", "Round", ", Schedule",
                        "District", "Sector", "Person serial no.", "State">>
    /\ Height(input) >= 1
    /\ FileCell("State", 1) = IntCell(12)
    /\ FileCell("District", 1) = IntCell(23)
    /\ Col(df, "household_id").vals[1] =
           StrCell(<<"0", "7", "2", ".", "0", "1", "2", "2", "3">>)

\* C8: two rows get the same household_id exactly when their key tuples are
\* equal (stated for rows without a null key cell, where the claim fails
\* already).
C8_HouseholdKeyInjective ==
    pc = "processed" =>
        \A i, j \in Rows(input) :
            (~HasNull(KeyTuple(i)) /\ ~HasNull(KeyTuple(j)))
            => ((KeyTuple(i) = KeyTuple(j))
                <=> (Col(df, "household_id").vals[i] = Col(df, "household_id").vals[j]))

PersonKeyed == pc = "keyed" /\ call.created

\* The (household_id, Sl.No.) pair of row i before person key synthesis.
PersonPair(i) == <<Col(prev, "household_id").vals[i], Col(prev, "Sl.No.").vals[i]>>

\* C9: when the (household_id, Sl.No.) pairs of a person-level table are
\* pairwise distinct, so are the person_id values (stated for rows without a
\* null household_id, where the claim fails already).
C9_PersonKeyUnique ==
    PersonKeyed =>
        \A i, j \in Rows(prev) :
            (i # j /\ ~HasNull(PersonPair(i)) /\ ~HasNull(PersonPair(j))
                   /\ PersonPair(i) # PersonPair(j))
            => Col(df, "person_id").vals[i] # Col(df, "person_id").vals[j]

\* C10: after person key synthesis person_id is the first column, Sl.No. is
\* gone, and the other columns follow in their previous relative order with
\* unchanged values.
C10_PersonIdFirst ==
    PersonKeyed =>
        /\ df[1].name = "person_id"
        /\ \A i \in DOMAIN df : df[i].name # "Sl.No."
        /\ Tail(df) = SelectSeq(prev, LAMBDA c : c.name # "Sl.No.")

\* A two-row person table of four columns went through person key synthesis.
C10_Witness ==
    /\ PersonKeyed
    /\ Names(prev) = <<"household_id", "Sl.No.", "State", "District", "Age">>
    /\ Names(df) = <<"person_id", "household_id", "State", "District", "Age">>
    /\ Height(df) = 2
    /\ Col(df, "person_id").vals[1] # Null

\* ------------------------------ claims: alias resolution and projection (C11-C12)

\* The names of the columns the subsetting keeps, in the file's order.
KeptNames == <<input[2].name>> \o [i \in 1..(Len(input) - 4) |-> input[i + 4].name]

IsAlias(name) ==
    \E g \in DOMAIN COLUMN_ALIASES : InList(COLUMN_ALIASES[g].aliases, name)

AliasGroup(name) ==
    COLUMN_ALIASES[CHOOSE g \in DOMAIN COLUMN_ALIASES :
                       InList(COLUMN_ALIASES[g].aliases, name)]

AliasRank(name) ==
    CHOOSE k \in DOMAIN AliasGroup(name).aliases : AliasGroup(name).aliases[k] = name

\* The alias takes the canonical name: the canonical name is not among the
\* kept columns, and no alias listed earlier in its group is.
TakesCanonical(name) ==
    /\ IsAlias(name)
    /\ ~InList(KeptNames, AliasGroup(name).standard_name)
    /\ \A k \in 1..(AliasRank(name) - 1) :
          ~InList(KeptNames, AliasGroup(name).aliases[k])

ResolvedName(name) ==
    IF TakesCanonical(name) THEN AliasGroup(name).standard_name ELSE name

NoDuplicates(names) ==
    \A i, j \in DOMAIN names : names[i] = names[j] => i = j

\* C11: an alias column takes its canonical name only while that name is
\* absent from the table; when the canonical column exists already, from the
\* file or from an earlier alias of the group, the alias keeps its own name and
\* place, and the resulting table has no two columns with the same name.
C11_AliasResolution ==
    pc = "processed" =>
        /\ SelectSeq(Names(df), LAMBDA c : c # "household_id")
               = [k \in DOMAIN KeptNames |-> ResolvedName(KeptNames[k])]
        /\ NoDuplicates(Names(df))

\* A file with both aliases of Sl.No. and the alias of Schedule: the alias
\* listed first takes the canonical name, the other one keeps its own.
C11_Witness ==
    /\ pc = "processed"
    /\ KeptNames = <<"State", "Serial no.of member", "Person serial no.", ", Schedule">>
    /\ Names(df) = <<"State", "Serial no.of member", "Sl.No.", "Schedule", "household_id">>

\* Position of x in a list that holds it once.
IndexIn(list, x) == CHOOSE i \in DOMAIN list : list[i] = x

\* C12: the projection outputs a permutation of the table's columns, cells
\* unchanged: the columns that the order list names come first, in the list's
\* order, and every other column follows in its previous relative order.
C12_ProjectionPermutes ==
    pc = "projected" =>
        /\ Len(df) = Len(prev)
        /\ NoDuplicates(Names(df))
        /\ \A i \in DOMAIN prev : HasCol(df, prev[i].name) /\ Col(df, prev[i].name) = prev[i]
        /\ \A i, j \in DOMAIN df :
              i < j =>
                 LET a == df[i].name
                     b == df[j].name
                 IN CASE InList(call.order, a) /\ InList(call.order, b)
                            -> IndexIn(call.order, a) < IndexIn(call.order, b)
                      [] InList(call.order, a) /\ ~InList(call.order, b) -> TRUE
                      [] ~InList(call.order, a) /\ InList(call.order, b) -> FALSE
                      [] OTHER -> IndexIn(Names(prev), a) < IndexIn(Names(prev), b)

\* The order list names person_id before state; the table held state, another
\* column and person_id, in that order.
C12_Witness ==
    /\ pc = "projected"
    /\ Names(prev) = <<"state", "household_id", "person_id">>
    /\ Names(df) = <<"person_id", "state", "household_id">>

\* ------------------------------------------ claims: file groups (C13, C18, C19)

\* The last step handled one file of a group of several files.
PartStep == call.fn = "part"

\* The accumulated table before the step, and the table of the step's file.
TableA == prev.combined_df.table
TableB == call.part

NameSet(t) == {t[i].name : i \in DOMAIN t}

\* One of the two tables has columns the other lacks, and not the other way
\* round.
OneSided ==
    \/ NameSet(TableA) \ NameSet(TableB) # {} /\ NameSet(TableB) \subseteq NameSet(TableA)
    \/ NameSet(TableB) \ NameSet(TableA) # {} /\ NameSet(TableA) \subseteq NameSet(TableB)

\* C13: when a column exists only in the accumulated table A, or only in the
\* next part B, the concatenation succeeds; the result has the union of the
\* columns and the rows of A followed by the rows of B, and the rows of the
\* table that lacked the column hold null in it.
C13_DisjointColumnConcat ==
    (PartStep /\ call.ok /\ prev.combined_df.ok /\ OneSided) =>
        /\ call.outcome \in {"concatenated", "harmonized"}
        /\ NameSet(df.combined_df.table) = NameSet(TableA) \cup NameSet(TableB)
        /\ Height(df.combined_df.table) = Height(TableA) + Height(TableB)
        /\ \A x \in NameSet(TableA) \ NameSet(TableB) :
              \A i \in (Height(TableA) + 1)..(Height(TableA) + Height(TableB)) :
                 Col(df.combined_df.table, x).vals[i] = Null
        /\ \A x \in NameSet(TableB) \ NameSet(TableA) :
              \A i \in 1..Height(TableA) :
                 Col(df.combined_df.table, x).vals[i] = Null

\* The file handled by the last step.
StepFile == Head(prev.file_paths)

\* The file keeps none of the grouping columns.
NoGroupingColumn(file) ==
    \A p \in DOMAIN file :
        (p = 2 \/ p >= 5) => ~InList(GROUP_BY_COLUMNS, file[p].name)

\* C18: a file without any grouping column, or on which a step fails, gives the
\* None sentinel and no exception; the caller then adds nothing to the module
\* dictionary nor to the accumulated table, which keeps its rows.
C18_NoneSentinelSkipped ==
    call.fn \in {"single", "part"} =>
        /\ (call.fail # "none" \/ NoGroupingColumn(StepFile)) => ~call.ok
        /\ ~call.ok =>
              /\ call.outcome = "skipped"
              /\ pc # "crashed"
              /\ df.combined_df = prev.combined_df
              /\ df.dfs = prev.dfs

\* The second file of a group has no grouping column; the rows accumulated
\* from the first file stay.
C18_Witness ==
    /\ PartStep
    /\ call.fail = "none"
    /\ ~call.ok
    /\ NoGroupingColumn(StepFile)
    /\ prev.combined_df.ok
    /\ Height(prev.combined_df.table) >= 1
    /\ df.combined_df = prev.combined_df

\* C19: no failure to concatenate one part aborts the run, and when the retry
\* after harmonization fails the accumulated table is what it was before that
\* part.
C19_DroppedPartLeavesAccumulated ==
    PartStep =>
        /\ call.outcome # "aborted"
        /\ call.outcome = "dropped" => df.combined_df = prev.combined_df

\* ------------------------------------------ claims: the join pipeline (C14-C16)

\* The last step performed a left join of call.left with call.right.
Joined ==
    /\ call.fn \in {"household_join", "time_use_join"}
    /\ call.error = "none"
    /\ call.left # <<>>

JoinKey == IF call.fn = "household_join" THEN "household_id" ELSE "person_id"

\* The table the join produced, as the step left it.
JoinOut == IF call.fn = "household_join" THEN df.individual_profile ELSE df.output.table

\* The name a column of the operands has in JoinOut: the household join is
\* followed by the renaming of lines 278-297.
OutName(name) ==
    IF call.fn = "household_join" /\ \E m \in DOMAIN column_mapping : column_mapping[m][1] = name
    THEN column_mapping[CHOOSE m \in DOMAIN column_mapping : column_mapping[m][1] = name][2]
    ELSE name

\* Number of rows of the right table whose key equals that of driving row i.
MatchCount(i) ==
    Cardinality({j \in Rows(call.right) :
                    /\ Col(call.left, JoinKey).vals[i] # Null
                    /\ Col(call.right, JoinKey).vals[j] = Col(call.left, JoinKey).vals[i]})

\* Sum over the driving rows 1..i of max(1, MatchCount).
RECURSIVE ExpectedRows(_)
ExpectedRows(i) ==
    IF i = 0 THEN 0
    ELSE ExpectedRows(i - 1) + (IF MatchCount(i) = 0 THEN 1 ELSE MatchCount(i))

\* Row k of the output carries driving row i in the driving table's columns.
FromDrivingRow(k, i) ==
    \A c \in DOMAIN call.left :
        Col(JoinOut, OutName(call.left[c].name)).vals[k] = call.left[c].vals[i]

\* C14: a left join keeps every driving row.  The output has the sum over the
\* driving rows of max(1, number of matching right rows) rows, which is the
\* driving row count when no key matches twice, and an unmatched driving row
\* carries nulls in the right table's columns.
C14_LeftJoinCardinality ==
    Joined =>
        /\ Height(JoinOut) = ExpectedRows(Height(call.left))
        /\ (\A i \in Rows(call.left) : MatchCount(i) <= 1)
              => Height(JoinOut) = Height(call.left)
        /\ \A i \in Rows(call.left) :
              /\ \E k \in Rows(JoinOut) : FromDrivingRow(k, i)
              /\ MatchCount(i) = 0 =>
                    \A k \in Rows(JoinOut) :
                        FromDrivingRow(k, i) =>
                            \A c \in DOMAIN call.right :
                                call.right[c].name # JoinKey =>
                                    Col(JoinOut, OutName(call.right[c].name)).vals[k] = Null

\* Two persons joined with two household rows: the first person's household
\* has both rows, the second person's has none, and the output has three rows.
C14_Witness ==
    /\ Joined
    /\ call.fn = "household_join"
    /\ Height(call.left) = 2
    /\ MatchCount(1) = 2
    /\ MatchCount(2) = 0
    /\ Height(JoinOut) = 3
    /\ Col(JoinOut, "household_size").vals[3] = Null

\* The non-null values of the column of that name.
KeysOf(t, name) == {Col(t, name).vals[i] : i \in Rows(t)} \ {Null}

\* C15: the person table drives both joins.  Every person of the individual
\* profile, with or without diary rows, appears in the output table, and no
\* output row has a person_id that matches no person.
C15_PersonTableDrives ==
    (pc = "returned" /\ df.output.ok) =>
        /\ KeysOf(call.right, "person_id") \subseteq KeysOf(df.output.table, "person_id")
        /\ KeysOf(df.output.table, "person_id") \subseteq KeysOf(call.right, "person_id")

\* C16: whatever modules the input holds, the run ends without an uncaught
\* exception and with an output table written.
C16_RunWritesOutput ==
    /\ pc # "crashed"
    /\ pc = "returned" => df.output.ok

\* ------------------------------------------ claims: district mapping (C17)

\* The call reached the mapping and nothing raised.
DistrictMapped ==
    /\ pc = "district_mapped"
    /\ call.fail = "none"
    /\ HasCol(prev, "State")
    /\ HasCol(prev, "District")

PairDefined(mapping, st, d) == st \in DOMAIN mapping /\ d \in DOMAIN mapping[st]

\* C17: each District cell whose row has a non-null state and district becomes
\* DISTRICT_MAPPING[state][district] when the pair of their texts is defined
\* and "Unknown District (<district>)" when it is not; the State column, every
\* other column and the number of rows are unchanged.
C17_DistrictResolved ==
    DistrictMapped =>
        /\ Height(df) = Height(prev)
        /\ NameSet(df) = NameSet(prev)
        /\ \A c \in DOMAIN prev :
              prev[c].name # "District" => Col(df, prev[c].name) = prev[c]
        /\ \A i \in Rows(prev) :
              LET st == Col(prev, "State").vals[i]
                  d == Col(prev, "District").vals[i]
              IN (st # Null /\ d # Null) =>
                    Col(df, "District").vals[i] =
                        IF PairDefined(call.mapping, st.s, d.s)
                        THEN StrCell(call.mapping[st.s][d.s])
                        ELSE StrCell(S_Unknown
                                     \o <<" ", "D", "i", "s", "t", "r", "i", "c", "t", " ", "(">>
                                     \o d.s \o <<")">>)

\* District "3" is defined under state "1" only: the row of state "1" gets the
\* name, the row of state "12" gets "Unknown District (3)".
C17_Witness ==
    /\ DistrictMapped
    /\ Height(prev) = 2
    /\ Col(prev, "State").vals = <<StrCell(K_1), StrCell(K_12)>>
    /\ Col(prev, "District").vals = <<StrCell(K_3), StrCell(K_3)>>
    /\ PairDefined(call.mapping, K_1, K_3)
    /\ ~PairDefined(call.mapping, K_12, K_3)
    /\ Col(df, "District").vals[1] = StrCell(<<"D", "1", "/", "3">>)
    /\ Col(df, "District").vals[2] =
           StrCell(<<"U", "n", "k", "n", "o", "w", "n", " ", "D", "i", "s", "t", "r",
                     "i", "c", "t", " ", "(", "3", ")">>)

\* ------------------------------------------ claims: geographic lookup (C20)

\* The composite key of a reference row, as a triple of integers.
Triple(row) == <<row.sub_region, row.district, row.state>>

\* The reference rows holding that composite key.
Occurrences(triple) == {i \in DOMAIN input : Triple(input[i]) = triple}

Max(S) == CHOOSE x \in S : \A y \in S : y <= x

\* The lookup key of a triple of integers.
KeyText(triple) == mapping_key(triple[1], triple[2], triple[3])

\* C20: each composite key of the reference table is mapped to the names of
\* its last row, the recorded duplicates are exactly the keys of two or more
\* rows, and the lookup has one entry per distinct composite key.
C20_LastWinsDuplicatesRecorded ==
    pc = "lookup" =>
        LET triples == {Triple(input[i]) : i \in DOMAIN input}
        IN /\ \A t \in triples :
                 /\ KeyText(t) \in DOMAIN df.mapping_dict
                 /\ df.mapping_dict[KeyText(t)] =
                        [state_name |-> input[Max(Occurrences(t))].state_name,
                         district_name |-> input[Max(Occurrences(t))].district_name]
           /\ df.duplicate_keys =
                 {KeyText(t) : t \in {u \in triples : Cardinality(Occurrences(u)) >= 2}}
           /\ Cardinality(DOMAIN df.mapping_dict) = Cardinality(triples)

\* The key (1, 11, 1) occurs in rows 1 and 3 with different district names and
\* the key (11, 1, 1) in row 2: two entries, one duplicate, the last name kept.
C20_Witness ==
    /\ pc = "lookup"
    /\ Len(input) = 3
    /\ Triple(input[1]) = <<1, 11, 1>>
    /\ Triple(input[2]) = <<11, 1, 1>>
    /\ Triple(input[3]) = <<1, 11, 1>>
    /\ input[1].district_name = "Idukki"
    /\ input[3].district_name = "Wayanad"
    /\ df.mapping_dict[<<"1", "_", "1", "1", "_", "1">>].district_name = "Wayanad"
    /\ df.duplicate_keys = {<<"1", "_", "1", "1", "_", "1">>}
    /\ Cardinality(DOMAIN df.mapping_dict) = 2

\* ------------------------------------ claims: district mapping, pandas (C21)

\* The call completed without an exception.
GeoMapped == pc = "geo_mapped" /\ call.fail = "none"

\* The composite key of an input row, as a triple of integers: the state code
\* is the NSS-Region code without its last digit.
RowTriple(row) ==
    <<row.sub_region, row.district,
      IF row.nss_region >= 10 /\ row.nss_region < 1000
      THEN row.nss_region \div 10 ELSE row.nss_region>>

\* The reference rows holding that composite key.
ReferenceOf(triple) ==
    {i \in DOMAIN input.districts_df : Triple(input.districts_df[i]) = triple}

InLookup(triple) == ReferenceOf(triple) # {}

\* Each row holds the reference names of its key when the key is in the
\* lookup, and the two defaults otherwise.
GeoRowsResolved ==
    \A i \in DOMAIN input.rows :
        LET t == RowTriple(input.rows[i])
        IN IF InLookup(t)
           THEN /\ df.rows[i].state = input.districts_df[Max(ReferenceOf(t))].state_name
                /\ df.rows[i].district = input.districts_df[Max(ReferenceOf(t))].district_name
           ELSE /\ df.rows[i].state = "Unknown State"
                /\ df.rows[i].district = "Unknown District"

\* The failures log lists exactly the distinct keys of input rows that are
\* absent from the lookup.
GeoFailureLogExact ==
    df.failure_log =
        {<<Digits(t[1]), Digits(t[2]), Digits(t[3])>> :
            t \in {u \in {RowTriple(input.rows[i]) : i \in DOMAIN input.rows} : ~InLookup(u)}}

\* The reported failed count is the number of rows whose key is absent from
\* the lookup.
GeoFailedCountExact ==
    df.failed_mappings =
        Cardinality({i \in DOMAIN input.rows : ~InLookup(RowTriple(input.rows[i]))})

\* C21: after the pandas map_district_codes completes, a row holds the
\* reference names of its composite key iff the key is in the lookup and the
\* defaults otherwise, the failures log lists exactly the distinct keys absent
\* from the lookup, and the failed count is the number of rows with such keys.
C21_GeoMappingAndFailureLog ==
    GeoMapped => (GeoRowsResolved /\ GeoFailureLogExact /\ GeoFailedCountExact)

\* ------------------------------------------------- claims: file grouping (C22)

FilesGrouped == pc \in {"grouped", "combining", "crashed"}

\* The stem of a file: its name without the directory and without the
\* extension, which starts at the last ".".
Stem(file_path) ==
    LET name == basename(file_path)
    IN IF \E i \in DOMAIN name : name[i] = "."
       THEN SubSeq(name, 1, (CHOOSE i \in DOMAIN name :
                                name[i] = "." /\ \A j \in (i + 1)..Len(name) : name[j] # ".") - 1)
       ELSE name

\* The lower-cased stem with one trailing "_<digits>" segment removed.
StemKey(file_path) ==
    LET s == lower(Stem(file_path))
    IN IF \E k \in DOMAIN s : s[k] = "_" /\ isdigit(SubSeq(s, k + 1, Len(s)))
       THEN SubSeq(s, 1, (CHOOSE k \in DOMAIN s :
                             s[k] = "_" /\ isdigit(SubSeq(s, k + 1, Len(s)))) - 1)
       ELSE s

\* The places (group, position) of the grouping.
Places ==
    {p \in (DOMAIN df.file_groups) \X (1..MaxFiles + 1) :
        p[2] \in DOMAIN df.file_groups[p[1]].file_paths}

PlaceFile(p) == df.file_groups[p[1]].file_paths[p[2]]

InputIndex(file_path) == CHOOSE i \in DOMAIN input : input[i] = file_path

\* Every input file is at exactly one place, and no two groups share a key.
EveryFileInOneGroup ==
    /\ \A i \in DOMAIN input : Cardinality({p \in Places : PlaceFile(p) = input[i]}) = 1
    /\ \A p \in Places : \E i \in DOMAIN input : PlaceFile(p) = input[i]
    /\ \A g, h \in DOMAIN df.file_groups :
          df.file_groups[g].base_name = df.file_groups[h].base_name => g = h

\* The key of a group is the stem key of each of its files.
GroupsKeyedByStem ==
    \A p \in Places : df.file_groups[p[1]].base_name = StemKey(PlaceFile(p))

\* The files of a group are in their input order.
GroupsKeepInputOrder ==
    \A p, q \in Places :
        (p[1] = q[1] /\ p[2] < q[2]) => InputIndex(PlaceFile(p)) < InputIndex(PlaceFile(q))

\* The input index of the file a row of a module table came from: the State
\* code of the row.
RowFile(t, r) == DigitsValue(Col(t, "State").vals[r].s)

\* The rows of each module table come from files of its group and are in the
\* order of those files.
TablesKeepFileOrder ==
    \A key \in DOMAIN df.dfs :
        LET t == df.dfs[key]
        IN /\ \A r \in 1..Height(t) : base_name(input[RowFile(t, r)]) = key
           /\ \A r, s \in 1..Height(t) : r < s => RowFile(t, r) < RowFile(t, s)

\* C22: once the files are grouped, every input file is in exactly one group,
\* the key of its group is its lower-cased stem without one trailing
\* "_<digits>" segment, the files of a group are in input order, and the rows
\* of each concatenated module table are in that order.
C22_FilesGroupedByStem ==
    FilesGrouped =>
        (EveryFileInOneGroup /\ GroupsKeyedByStem /\ GroupsKeepInputOrder
            /\ TablesKeepFileOrder)

====
